---- MODULE Spec2Model ----
(***************************************************************************)
(* Join predicates of pkg/sql/join_predicate.go: the three variants        *)
(* (crossPredicate, onPredicate, equalityPredicate), their construction    *)
(* (makeUsingPredicate, makeEqualityPredicate), and their row operations   *)
(* (eval, prepareRow, encode).                                             *)
(*                                                                         *)
(* Go slices are 0-based; the sequences here are 1-based, so Go position k *)
(* is position k+1 here.  A Go map is a function on its key set.           *)
(***************************************************************************)
EXTENDS Integers, Sequences, FiniteSets, TLC

VARIABLES
  left,      \* *dataSourceInfo of the left input
  right,     \* *dataSourceInfo of the right input
  pred,      \* the joinPredicate under use
  info,      \* the merged *dataSourceInfo returned with it
  op,        \* the operation that ran last
  args,      \* its arguments
  ret,       \* what it returned (or that it panicked)
  bufs,      \* the result buffers of the On evaluation streams
  pc,        \* position of each On evaluation stream inside eval
  streams,   \* per-stream arguments and observations of onPredicate.eval
  join       \* state of the join operator's nested loop

vars == <<left, right, pred, info, op, args, ret, bufs, pc, streams, join>>

----------------------------------------------------------------------------
(* Bounds *)

MaxCols == 2      \* columns per input schema
MaxUsing == 2     \* names per USING list
MaxVal == 2       \* non-null datums are 1..MaxVal
MaxRows == 2      \* rows per join input

----------------------------------------------------------------------------
(* Program constants *)

leftSide == 0
rightSide == 1
invalidColIdx == -1

----------------------------------------------------------------------------
(* Values *)

\* Datums are numbers: parser.DNull, the values 1..MaxVal, and one datum that
\* the comparison functions and the value encoder fail on.
DNull == 0
DBad == -1
Datums == {DNull, DBad} \cup (1..MaxVal)

NoErr == <<>>
NoType == "none"
Types == {"int", "string"}

Max(S) == CHOOSE x \in S : \A y \in S : y <= x

SeqsUpTo(S, lo, hi) == UNION {[1..n -> S] : n \in lo..hi}

Rows(n) == [1..n -> Datums]

\* parser.Name.Normalize / parser.ReNormalizeName: case folding.
Normalize(name) ==
  CASE name = "A" -> "a"
    [] name = "B" -> "b"
    [] OTHER -> name

\* parser.FindEqualComparisonFunction: an equality function exists for a
\* pair of types the engine can compare; it is identified by the two types.
FindEqualComparisonFunction(leftType, rightType) ==
  IF leftType = rightType
    THEN [found |-> TRUE, fn |-> <<leftType, rightType>>]
    ELSE [found |-> FALSE, fn |-> <<>>]

\* Applying a usingCmp function: (DBool, error).
CmpApply(fn, leftVal, rightVal) ==
  IF leftVal = DBad \/ rightVal = DBad
    THEN [res |-> FALSE, err |-> <<"cmp error">>]
    ELSE [res |-> (leftVal = rightVal), err |-> NoErr]

\* sqlbase.EncodeDatum: appends a tag and, for a non-null datum, its value.
EncodeDatum(b, d) ==
  IF d = DBad THEN [b |-> <<>>, err |-> <<"unencodable">>]
  ELSE IF d = DNull THEN [b |-> b \o <<0>>, err |-> NoErr]
  ELSE [b |-> b \o <<1, d>>, err |-> NoErr]

----------------------------------------------------------------------------
(* Predicates and schemas *)

NilPred == [kind |-> "nil"]
NilInfo == [nil |-> TRUE, sourceColumns |-> <<>>, sourceAliases |-> <<>>]

crossPredicate == [kind |-> "cross"]

\* pickUsingColumn: the last visible column whose normalized name matches.
pickUsingColumn(cols, colName, context) ==
  LET matches == {j \in 1..Len(cols) :
                    ~cols[j].hidden /\ Normalize(cols[j].Name) = colName}
      idx == IF matches = {} THEN invalidColIdx ELSE Max(matches)
  IN IF idx = invalidColIdx
       THEN [idx |-> idx, typ |-> NoType,
             err |-> <<"does not exist", colName, context>>]
       ELSE [idx |-> idx, typ |-> cols[idx].Typ, err |-> NoErr]

\* makeEqualityPredicate, lines 350-383: the loop over the USING pairs, from
\* pair i on.  st holds the locals; st.err is set where the code returns.
RECURSIVE PairLoop(_, _, _, _, _, _)
PairLoop(l, r, leftColNames, rightColNames, i, st) ==
  IF i > Len(leftColNames) THEN st
  ELSE
    LET leftColName == Normalize(leftColNames[i])
        rightColName == Normalize(rightColNames[i])
        lp == pickUsingColumn(l.sourceColumns, leftColName, "left")
    IN IF lp.err # NoErr THEN [st EXCEPT !.err = lp.err]
       ELSE
         LET rp == pickUsingColumn(r.sourceColumns, rightColName, "right")
         IN IF rp.err # NoErr THEN [st EXCEPT !.err = rp.err]
            ELSE
              LET f == FindEqualComparisonFunction(lp.typ, rp.typ)
              IN IF ~f.found
                   THEN [st EXCEPT !.err = <<"cannot be matched", lp.typ,
                                             leftColName, rp.typ, rightColName>>]
                   ELSE PairLoop(l, r, leftColNames, rightColNames, i + 1,
                          [st EXCEPT
                             !.usedLeft[lp.idx] = i,
                             !.usedRight[rp.idx] = i,
                             !.leftUsingIndices[i] = lp.idx,
                             !.rightUsingIndices[i] = rp.idx,
                             !.cmpOps[i] = f.fn,
                             !.columns = Append(@, l.sourceColumns[lp.idx])])

\* RestLoop taking every column, used by a pair or not.
RECURSIVE RestLoopAll(_, _, _)
RestLoopAll(cols, i, st) ==
  IF i > Len(cols) THEN st
  ELSE RestLoopAll(cols, i + 1,
         [rest |-> Append(st.rest, i),
          used |-> [st.used EXCEPT ![i] = Len(st.columns) + 1],
          columns |-> Append(st.columns, cols[i])])

\* makeEqualityPredicate, lines 385-401: the columns of one side that no
\* pair uses, from column i on.  st is [rest, used, columns].
RECURSIVE RestLoop(_, _, _)
RestLoop(cols, i, st) ==
  IF i > Len(cols) THEN st
  ELSE IF st.used[i] = invalidColIdx
    THEN RestLoop(cols, i + 1,
           [rest |-> Append(st.rest, i),
            used |-> [st.used EXCEPT ![i] = Len(st.columns) + 1],
            columns |-> Append(st.columns, cols[i])])
    ELSE RestLoop(cols, i + 1, st)

\* makeEqualityPredicate, lines 406-419: one side's aliases with every
\* column index replaced by its index in the merged columns.
RemapAliases(sourceAliases, used) ==
  [alias \in DOMAIN sourceAliases |->
     [i \in 1..Len(sourceAliases[alias]) |-> used[sourceAliases[alias][i]]]]

\* An aliases map in which the left side's entry survives.
MergeAliasesLeftWins(la, ra) ==
  [alias \in (DOMAIN la) \cup (DOMAIN ra) |->
     IF alias \in DOMAIN la THEN la[alias] ELSE ra[alias]]

\* The aliases map after both loops: the right side is written last.
MergeAliases(la, ra) ==
  [alias \in (DOMAIN la) \cup (DOMAIN ra) |->
     IF alias \in DOMAIN ra THEN ra[alias] ELSE la[alias]]

\* planner.makeEqualityPredicate, lines 337-436: after the length check.
makeEqualityBody(l, r, leftColNames, rightColNames) ==
    LET n == Len(leftColNames)
        st0 == [usedLeft |-> [i \in 1..Len(l.sourceColumns) |-> invalidColIdx],
                usedRight |-> [i \in 1..Len(r.sourceColumns) |-> invalidColIdx],
                leftUsingIndices |-> [i \in 1..n |-> 0],
                rightUsingIndices |-> [i \in 1..n |-> 0],
                cmpOps |-> [i \in 1..n |-> <<>>],
                columns |-> <<>>,
                err |-> NoErr]
        st == PairLoop(l, r, leftColNames, rightColNames, 1, st0)
    IN IF st.err # NoErr
         THEN [pred |-> NilPred, info |-> NilInfo, err |-> st.err, panic |-> NoErr]
         ELSE
           LET lr == RestLoop(l.sourceColumns, 1,
                       [rest |-> <<>>, used |-> st.usedLeft, columns |-> st.columns])
               rr == RestLoop(r.sourceColumns, 1,
                       [rest |-> <<>>, used |-> st.usedRight, columns |-> lr.columns])
               aliases == MergeAliases(RemapAliases(l.sourceAliases, lr.used),
                                       RemapAliases(r.sourceAliases, rr.used))
           IN [pred |-> [kind |-> "equality",
                         leftColNames |-> leftColNames,
                         rightColNames |-> rightColNames,
                         usingCmp |-> st.cmpOps,
                         leftUsingIndices |-> st.leftUsingIndices,
                         rightUsingIndices |-> st.rightUsingIndices,
                         leftRestIndices |-> lr.rest,
                         rightRestIndices |-> rr.rest],
               info |-> [nil |-> FALSE, sourceColumns |-> rr.columns,
                         sourceAliases |-> aliases],
               err |-> NoErr, panic |-> NoErr]

\* A length mismatch reported as an error value instead of a panic.
makeEqualityPredicateErr(l, r, leftColNames, rightColNames) ==
  IF Len(leftColNames) # Len(rightColNames)
    THEN [pred |-> NilPred, info |-> NilInfo, panic |-> NoErr,
          err |-> <<"left columns' length doesn't match right columns' length">>]
    ELSE makeEqualityBody(l, r, leftColNames, rightColNames)

\* planner.makeEqualityPredicate.
makeEqualityPredicate(l, r, leftColNames, rightColNames) ==
  IF Len(leftColNames) # Len(rightColNames)
    THEN [pred |-> NilPred, info |-> NilInfo, err |-> NoErr,
          panic |-> <<"left columns' length doesn't match right columns' length">>]
    ELSE makeEqualityBody(l, r, leftColNames, rightColNames)

\* makeUsingPredicate, lines 313-322: the first name already seen, if any.
RECURSIVE SeenLoop(_, _, _)
SeenLoop(colNames, i, seenNames) ==
  IF i > Len(colNames) THEN NoErr
  ELSE LET colName == Normalize(colNames[i])
       IN IF colName \in seenNames
            THEN <<"appears more than once", colName>>
            ELSE SeenLoop(colNames, i + 1, seenNames \cup {colName})

\* makeUsingPredicate without the check for a repeated name.
makeUsingPredicateNoDupCheck(l, r, colNames) ==
  makeEqualityPredicate(l, r, colNames, colNames)

\* planner.makeUsingPredicate.
makeUsingPredicate(l, r, colNames) ==
  LET dup == SeenLoop(colNames, 1, {})
  IN IF dup # NoErr
       THEN [pred |-> NilPred, info |-> NilInfo, err |-> dup, panic |-> NoErr]
       ELSE makeEqualityPredicate(l, r, colNames, colNames)

----------------------------------------------------------------------------
(* Row operations *)

\* A concatenation that copies the right row to the front as well.
prepareRowConcatNoOffset(result, leftRow, rightRow) ==
  [i \in 1..Len(result) |->
     IF i <= Len(rightRow) THEN rightRow[i]
     ELSE IF i <= Len(leftRow) THEN leftRow[i]
     ELSE result[i]]

\* prepareRowConcat: copy(result, leftRow); copy(result[len(leftRow):], rightRow).
prepareRowConcat(result, leftRow, rightRow) ==
  [i \in 1..Len(result) |->
     IF i <= Len(leftRow) THEN leftRow[i]
     ELSE IF i - Len(leftRow) <= Len(rightRow) THEN rightRow[i - Len(leftRow)]
     ELSE result[i]]

\* crossPredicate.eval
crossEval(p, result, leftRow, rightRow) ==
  [res |-> TRUE, err |-> NoErr, calls |-> <<>>, panic |-> NoErr]

\* crossPredicate.encode
crossEncode(p, b, row, side) ==
  [b |-> <<>>, containsNull |-> FALSE, err |-> NoErr, panic |-> NoErr,
   calls |-> 0]

\* An encode of onPredicate that returns like crossPredicate's.
onEncodeReturns(p, b, row, side) ==
  [b |-> <<>>, containsNull |-> FALSE, err |-> NoErr, panic |-> NoErr,
   calls |-> 0]

\* onPredicate.encode
onEncode(p, b, row, side) ==
  [b |-> <<>>, containsNull |-> FALSE, err |-> NoErr, calls |-> 0,
   panic |-> <<"ON predicate extraction unimplemented">>]

\* equalityPredicate.eval, the loop from pair i on; calls lists the pairs
\* whose usingCmp function has been called.
RECURSIVE equalityEvalLoop(_, _, _, _, _)
equalityEvalLoop(p, leftRow, rightRow, i, calls) ==
  IF i > Len(p.leftColNames)
    THEN [res |-> TRUE, err |-> NoErr, calls |-> calls, panic |-> NoErr]
  ELSE
    LET leftVal == leftRow[p.leftUsingIndices[i]]
        rightVal == rightRow[p.rightUsingIndices[i]]
    IN IF leftVal = DNull \/ rightVal = DNull
         THEN [res |-> FALSE, err |-> NoErr, calls |-> calls, panic |-> NoErr]
         ELSE
           LET c == CmpApply(p.usingCmp[i], leftVal, rightVal)
           IN IF c.err # NoErr
                THEN [res |-> FALSE, err |-> c.err, calls |-> Append(calls, i),
                      panic |-> NoErr]
              ELSE IF c.res # TRUE
                THEN [res |-> FALSE, err |-> NoErr, calls |-> Append(calls, i),
                      panic |-> NoErr]
              ELSE equalityEvalLoop(p, leftRow, rightRow, i + 1, Append(calls, i))

\* The loop of eval without the test for DNull: nulls go to usingCmp.
RECURSIVE equalityEvalLoopNoNull(_, _, _, _, _)
equalityEvalLoopNoNull(p, leftRow, rightRow, i, calls) ==
  IF i > Len(p.leftColNames)
    THEN [res |-> TRUE, err |-> NoErr, calls |-> calls, panic |-> NoErr]
  ELSE
    LET c == CmpApply(p.usingCmp[i], leftRow[p.leftUsingIndices[i]],
                      rightRow[p.rightUsingIndices[i]])
    IN IF c.err # NoErr
         THEN [res |-> FALSE, err |-> c.err, calls |-> Append(calls, i),
               panic |-> NoErr]
       ELSE IF c.res # TRUE
         THEN [res |-> FALSE, err |-> NoErr, calls |-> Append(calls, i),
               panic |-> NoErr]
       ELSE equalityEvalLoopNoNull(p, leftRow, rightRow, i + 1, Append(calls, i))

equalityEvalNoNull(p, result, leftRow, rightRow) ==
  equalityEvalLoopNoNull(p, leftRow, rightRow, 1, <<>>)

\* An eval whose loop leaves out the first pair.
equalityEvalSkipFirst(p, result, leftRow, rightRow) ==
  equalityEvalLoop(p, leftRow, rightRow, 2, <<>>)

\* equalityPredicate.eval
equalityEval(p, result, leftRow, rightRow) ==
  equalityEvalLoop(p, leftRow, rightRow, 1, <<>>)

\* equalityPredicate.prepareRow, lines 245-253: the USING slots from pair k
\* on.  st is [result, d, writes]; writes lists the positions assigned.
RECURSIVE prepareUsingLoop(_, _, _, _, _)
prepareUsingLoop(p, leftRow, rightRow, k, st) ==
  IF k > Len(p.leftUsingIndices) THEN st
  ELSE
    LET j == p.leftUsingIndices[k]
        v == IF leftRow[j] # DNull THEN leftRow[j]
             ELSE rightRow[p.rightUsingIndices[k]]
    IN prepareUsingLoop(p, leftRow, rightRow, k + 1,
         [result |-> [st.result EXCEPT ![st.d] = v],
          d |-> st.d + 1,
          writes |-> Append(st.writes, st.d)])

\* equalityPredicate.prepareRow, lines 254-261: the values of row at the
\* positions indices[k..].
RECURSIVE prepareRestLoop(_, _, _, _)
prepareRestLoop(indices, row, k, st) ==
  IF k > Len(indices) THEN st
  ELSE prepareRestLoop(indices, row, k + 1,
         [result |-> [st.result EXCEPT ![st.d] = row[indices[k]]],
          d |-> st.d + 1,
          writes |-> Append(st.writes, st.d)])

\* A prepareRow that puts the right rest before the left rest.
equalityPrepareRowRightFirst(p, result, leftRow, rightRow) ==
  LET s1 == prepareUsingLoop(p, leftRow, rightRow, 1,
              [result |-> result, d |-> 1, writes |-> <<>>])
      s2 == prepareRestLoop(p.rightRestIndices, rightRow, 1, s1)
  IN prepareRestLoop(p.leftRestIndices, leftRow, 1, s2)

\* equalityPredicate.prepareRow
equalityPrepareRow(p, result, leftRow, rightRow) ==
  LET s1 == prepareUsingLoop(p, leftRow, rightRow, 1,
              [result |-> result, d |-> 1, writes |-> <<>>])
      s2 == prepareRestLoop(p.leftRestIndices, leftRow, 1, s1)
  IN prepareRestLoop(p.rightRestIndices, rightRow, 1, s2)

\* equalityPredicate.encode, lines 275-286: the loop over cols from k on;
\* calls counts the EncodeDatum calls made.
RECURSIVE encodeLoop(_, _, _, _, _)
encodeLoop(cols, row, k, b, containsNull) ==
  IF k > Len(cols)
    THEN [b |-> b, containsNull |-> containsNull, err |-> NoErr, panic |-> NoErr,
          calls |-> k - 1]
  ELSE
    LET e == EncodeDatum(b, row[cols[k]])
    IN IF e.err # NoErr
         THEN [b |-> <<>>, containsNull |-> FALSE, err |-> e.err, panic |-> NoErr,
               calls |-> k]
         ELSE encodeLoop(cols, row, k + 1, e.b,
                         containsNull \/ row[cols[k]] = DNull)

\* An encode that never reports a null among the key values.
equalityEncodeNoNullFlag(p, b, row, side) ==
  IF side = rightSide
    THEN [encodeLoop(p.rightUsingIndices, row, 1, b, FALSE) EXCEPT !.containsNull = FALSE]
  ELSE IF side = leftSide
    THEN [encodeLoop(p.leftUsingIndices, row, 1, b, FALSE) EXCEPT !.containsNull = FALSE]
  ELSE [b |-> <<>>, containsNull |-> FALSE, err |-> NoErr, calls |-> 0,
        panic |-> <<"invalid side provided, only leftSide or rightSide applicable">>]

\* equalityPredicate.encode
equalityEncode(p, b, row, side) ==
  IF side = rightSide THEN encodeLoop(p.rightUsingIndices, row, 1, b, FALSE)
  ELSE IF side = leftSide THEN encodeLoop(p.leftUsingIndices, row, 1, b, FALSE)
  ELSE [b |-> <<>>, containsNull |-> FALSE, err |-> NoErr, calls |-> 0,
        panic |-> <<"invalid side provided, only leftSide or rightSide applicable">>]

\* joinPredicate.eval, by variant (onPredicate.eval runs in steps, below).
eval(p, result, leftRow, rightRow) ==
  IF p.kind = "cross" THEN crossEval(p, result, leftRow, rightRow)
  ELSE equalityEval(p, result, leftRow, rightRow)

\* joinPredicate.prepareRow, by variant.
prepareRow(p, result, leftRow, rightRow) ==
  IF p.kind = "equality" THEN equalityPrepareRow(p, result, leftRow, rightRow).result
  ELSE prepareRowConcat(result, leftRow, rightRow)

\* joinPredicate.encode, by variant.
encode(p, b, row, side) ==
  CASE p.kind = "equality" -> equalityEncode(p, b, row, side)
    [] p.kind = "on" -> onEncode(p, b, row, side)
    [] p.kind = "cross" -> crossEncode(p, b, row, side)

----------------------------------------------------------------------------
(* Inputs *)

Col(name, typ, hidden) == [Name |-> name, Typ |-> typ, hidden |-> hidden]

\* Column descriptors for construction: names that differ only by case,
\* two types, and a hidden column.
ConsColumns == {Col("a", "int", FALSE), Col("A", "string", FALSE),
                Col("b", "int", FALSE), Col("b", "int", TRUE)}

\* Column descriptors for the row operations.
RunColumns == {Col("a", "int", FALSE), Col("b", "int", FALSE)}

UsingNames == {"a", "A", "b"}
RunNames == {"a", "b"}
AliasNames == {"t", "u"}

\* A schema whose one alias denotes all its columns, in order.
Schema(cols, alias) ==
  [sourceColumns |-> cols,
   sourceAliases |-> [x \in {alias} |-> [i \in 1..Len(cols) |-> i]]]

ConsSchemas(alias) == {Schema(c, alias) : c \in SeqsUpTo(ConsColumns, 1, MaxCols)}
RunSchemas(alias) == {Schema(c, alias) : c \in SeqsUpTo(RunColumns, 1, MaxCols)}

\* The index lists of an alias over n columns: all columns in reverse order,
\* or a single column.
AliasLists(n) == {[i \in 1..n |-> n + 1 - i]} \cup {<<i>> : i \in 1..n}

AliasSchemas ==
  {[sourceColumns |-> c, sourceAliases |-> [x \in {a} |-> lst]] :
     <<c, a, lst>> \in
       {<<c, a, lst>> \in SeqsUpTo(RunColumns, 1, MaxCols) \X AliasNames
                            \X UNION {AliasLists(n) : n \in 1..MaxCols} :
          lst \in AliasLists(Len(c))}}

Streams == {1, 2}
Bufs == {1, 2}

NoJoin == [state |-> "none"]

\* The state before any predicate is constructed.
InitWith(L, R) ==
  /\ left \in L
  /\ right \in R
  /\ pred = NilPred
  /\ info = NilInfo
  /\ op = "init"
  /\ args = <<>>
  /\ ret = <<>>
  /\ bufs = [b \in Bufs |-> <<>>]
  /\ pc = [s \in Streams |-> "idle"]
  /\ streams = [s \in Streams |-> <<>>]
  /\ join = NoJoin

----------------------------------------------------------------------------
(* Construction *)

\* The caller's "pred, info, err := p.makeXPredicate(...)": a call that
\* panics assigns nothing.
Constructed(name, a, r) ==
  /\ op = "init"
  /\ op' = name
  /\ args' = a
  /\ ret' = [err |-> r.err, panic |-> r.panic, pred |-> r.pred, info |-> r.info]
  /\ pred' = IF r.panic = NoErr THEN r.pred ELSE pred
  /\ info' = IF r.panic = NoErr THEN r.info ELSE info
  /\ UNCHANGED <<left, right, bufs, pc, streams, join>>

MakeUsingPredicate(names) ==
  /\ op = "init"
  /\ \E colNames \in SeqsUpTo(names, 0, MaxUsing) :
    Constructed("makeUsingPredicate",
                [leftColNames |-> colNames, rightColNames |-> colNames],
                makeUsingPredicate(left, right, colNames))

MakeEqualityPredicate(names) ==
  /\ op = "init"
  /\ \E leftColNames \in SeqsUpTo(names, 0, MaxUsing) :
    \E rightColNames \in SeqsUpTo(names, 0, MaxUsing) :
      Constructed("makeEqualityPredicate",
                  [leftColNames |-> leftColNames, rightColNames |-> rightColNames],
                  makeEqualityPredicate(left, right, leftColNames, rightColNames))

ConsUsing == MakeUsingPredicate(UsingNames)
ConsEquality == MakeEqualityPredicate(UsingNames)

InitCons == InitWith(ConsSchemas("t"), ConsSchemas("u"))
NextCons == ConsUsing \/ ConsEquality
SpecCons == InitCons /\ [][NextCons]_vars

----------------------------------------------------------------------------
(* Cross and On construction *)

\* concatDataSourceInfos: the columns of both inputs, the right aliases
\* shifted past the left columns.
concatDataSourceInfos(l, r) ==
  [nil |-> FALSE,
   sourceColumns |-> l.sourceColumns \o r.sourceColumns,
   sourceAliases |->
     MergeAliases(l.sourceAliases,
                  [a \in DOMAIN r.sourceAliases |->
                     [i \in 1..Len(r.sourceAliases[a]) |->
                        r.sourceAliases[a][i] + Len(l.sourceColumns)]])]

\* The bound filters of the model: IndexedVar i = IndexedVar j, one column of
\* each input.
Filters(l, r) ==
  {<<i, Len(l.sourceColumns) + j>> :
     i \in 1..Len(l.sourceColumns), j \in 1..Len(r.sourceColumns)}

\* No buffer: the zero value of onPredicate.curRow.
NoBuf == 0

\* planner.makeOnPredicate
makeOnPredicate(l, r, expr) ==
  LET i == concatDataSourceInfos(l, r)
  IN [pred |-> [kind |-> "on", filter |-> expr, info |-> i, curRow |-> NoBuf],
      info |-> i, err |-> NoErr, panic |-> NoErr]

\* The join node's choice of crossPredicate for a CROSS JOIN.
makeCrossPredicate(l, r) ==
  [pred |-> crossPredicate, info |-> concatDataSourceInfos(l, r),
   err |-> NoErr, panic |-> NoErr]

MakeOnPredicate ==
  /\ op = "init"
  /\ \E expr \in Filters(left, right) :
    Constructed("makeOnPredicate", [expr |-> expr],
                makeOnPredicate(left, right, expr))

MakeCrossPredicate ==
  Constructed("makeCrossPredicate", <<>>, makeCrossPredicate(left, right))

----------------------------------------------------------------------------
(* The ready predicate: eval, prepareRow, encode *)

Constructors == {"makeUsingPredicate", "makeEqualityPredicate",
                 "makeOnPredicate", "makeCrossPredicate"}

\* A predicate was returned and no call on it is in progress.
Ready == pred # NilPred /\ op = "ready"

\* What a result buffer holds where nothing has been written.
Unwritten == -2

NewBuffer(n) == [i \in 1..n |-> Unwritten]

LeftRows == Rows(Len(left.sourceColumns))
RightRows == Rows(Len(right.sourceColumns))

\* A call of a joinPredicate method that runs to its end in one step.
Called(name, a, r) ==
  /\ Ready
  /\ op' = name
  /\ args' = a
  /\ ret' = r
  /\ UNCHANGED <<left, right, pred, info, bufs, pc, streams, join>>

\* eval of crossPredicate and equalityPredicate.
Eval ==
  /\ Ready
  /\ pred.kind \in {"cross", "equality"}
  /\ \E leftRow \in LeftRows : \E rightRow \in RightRows :
    /\ Called("eval", [p |-> pred, leftRow |-> leftRow, rightRow |-> rightRow],
              eval(pred, NewBuffer(Len(info.sourceColumns)), leftRow, rightRow))

\* prepareRow of every variant, into a buffer of the merged width.
PrepareRow ==
  /\ Ready
  /\ \E leftRow \in LeftRows : \E rightRow \in RightRows :
    LET result == NewBuffer(Len(info.sourceColumns))
    IN Called("prepareRow",
              [p |-> pred, leftRow |-> leftRow, rightRow |-> rightRow],
              [result |-> prepareRow(pred, result, leftRow, rightRow),
               writes |-> IF pred.kind = "equality"
                            THEN equalityPrepareRow(pred, result,
                                                    leftRow, rightRow).writes
                            ELSE <<>>,
               panic |-> NoErr])

Sides == {leftSide, rightSide, 2}
Scratch == {<<>>, <<7>>}

\* encode of every variant.
Encode ==
  /\ Ready
  /\ \E b \in Scratch : \E side \in Sides :
    \E row \in (IF side = rightSide THEN RightRows ELSE LeftRows) :
      Called("encode", [p |-> pred, b |-> b, row |-> row, side |-> side],
             encode(pred, b, row, side))

\* The caller takes what the last call returned; a predicate that was
\* constructed is ready for the next call.
Return ==
  /\ op \in Constructors \cup {"eval", "prepareRow", "encode"}
  /\ ret.panic = NoErr
  /\ pred # NilPred
  /\ op' = "ready"
  /\ args' = <<>>
  /\ ret' = <<>>
  /\ UNCHANGED <<left, right, pred, info, bufs, pc, streams, join>>

RunUsing == MakeUsingPredicate(RunNames)
RunEquality == MakeEqualityPredicate(RunNames)

InitAlias == InitWith(AliasSchemas, AliasSchemas)
NextAlias == RunUsing \/ RunEquality
SpecAlias == InitAlias /\ [][NextAlias]_vars

InitRun == InitWith(RunSchemas("t"), RunSchemas("u"))
NextRun ==
  \/ RunUsing \/ RunEquality \/ MakeOnPredicate \/ MakeCrossPredicate
  \/ Eval \/ PrepareRow \/ Encode \/ Return
SpecRun == InitRun /\ [][NextRun]_vars

----------------------------------------------------------------------------
(* onPredicate.eval, statement by statement, on evaluation streams that share
   one predicate.  Each statement is one step; the claim about concurrent
   calls needs no weaker memory model than this interleaving. *)

\* sqlbase.RunFilter on the filter "IndexedVar i = IndexedVar j", given the two
\* values IndexedVarEval returned: an error if the comparison fails, false if
\* the comparison is NULL.
RunFilter(v1, v2) ==
  IF v1 = DBad \/ v2 = DBad THEN [res |-> FALSE, err |-> <<"cmp error">>]
  ELSE IF v1 = DNull \/ v2 = DNull THEN [res |-> FALSE, err |-> NoErr]
  ELSE [res |-> (v1 = v2), err |-> NoErr]

Active(s) == pc[s] \notin {"idle", "done"}

\* No eval of the On predicate is in progress.
Quiet == \A s \in Streams : ~Active(s)

\* Stream s calls p.eval(result, leftRow, rightRow) with a buffer of the
\* merged width.  overlapped records that another call was in progress at some
\* time during this one.
OnEvalCall(s) ==
  /\ Ready
  /\ pred.kind = "on"
  /\ pc[s] = "idle"
  /\ \E b \in Bufs : \E leftRow \in LeftRows : \E rightRow \in RightRows :
       /\ streams' = [t \in Streams |->
            IF t = s
              THEN [result |-> b, leftRow |-> leftRow, rightRow |-> rightRow,
                    v1 |-> Unwritten, v2 |-> Unwritten,
                    res |-> FALSE, err |-> NoErr,
                    overlapped |-> \E u \in Streams \ {s} : Active(u)]
            ELSE IF Active(t) THEN [streams[t] EXCEPT !.overlapped = TRUE]
            ELSE streams[t]]
       /\ bufs' = IF bufs[b] = <<>>
                    THEN [bufs EXCEPT ![b] = NewBuffer(Len(info.sourceColumns))]
                    ELSE bufs
  /\ pc' = [pc EXCEPT ![s] = "set"]
  /\ UNCHANGED <<left, right, pred, info, op, args, ret, join>>

\* p.curRow = result
OnEvalSetCurRow(s) ==
  /\ pc[s] = "set"
  /\ pred' = [pred EXCEPT !.curRow = streams[s].result]
  /\ pc' = [pc EXCEPT ![s] = "concat"]
  /\ UNCHANGED <<left, right, info, op, args, ret, bufs, streams, join>>

\* prepareRowConcat(p.curRow, leftRow, rightRow)
OnEvalConcat(s) ==
  /\ pc[s] = "concat"
  /\ bufs' = [bufs EXCEPT ![pred.curRow] =
                prepareRowConcat(@, streams[s].leftRow, streams[s].rightRow)]
  /\ pc' = [pc EXCEPT ![s] = "read1"]
  /\ UNCHANGED <<left, right, pred, info, op, args, ret, streams, join>>

\* onPredicate.IndexedVarEval
IndexedVarEval(p, idx) == bufs[p.curRow][idx]

\* RunFilter evaluates the first column reference of the filter.
OnEvalRead1(s) ==
  /\ pc[s] = "read1"
  /\ streams' = [streams EXCEPT ![s].v1 = IndexedVarEval(pred, pred.filter[1])]
  /\ pc' = [pc EXCEPT ![s] = "read2"]
  /\ UNCHANGED <<left, right, pred, info, op, args, ret, bufs, join>>

\* RunFilter evaluates the second column reference and eval returns.
OnEvalRead2(s) ==
  /\ pc[s] = "read2"
  /\ LET v2 == IndexedVarEval(pred, pred.filter[2])
         r == RunFilter(streams[s].v1, v2)
     IN streams' = [streams EXCEPT ![s].v2 = v2, ![s].res = r.res,
                                   ![s].err = r.err]
  /\ pc' = [pc EXCEPT ![s] = "done"]
  /\ UNCHANGED <<left, right, pred, info, op, args, ret, bufs, join>>

OnEval ==
  \E s \in Streams :
    \/ OnEvalCall(s)
    \/ OnEvalSetCurRow(s)
    \/ OnEvalConcat(s)
    \/ OnEvalRead1(s)
    \/ OnEvalRead2(s)

\* The inputs of the On join: one column each.
OnSchemas(alias) == {Schema(<<c>>, alias) : c \in RunColumns}

\* The calls that run in one step are issued while no On eval is in progress.
QuietEval == Quiet /\ Eval
QuietPrepareRow == Quiet /\ PrepareRow

InitOn == InitWith(OnSchemas("t"), OnSchemas("u"))
NextOn ==
  \/ RunUsing \/ MakeOnPredicate \/ MakeCrossPredicate \/ Return
  \/ QuietEval \/ QuietPrepareRow \/ OnEval
SpecOn == InitOn /\ [][NextOn]_vars

----------------------------------------------------------------------------
(* The join operator: a nested loop over two inputs *)

\* The inputs of the join: both have the columns (a, b).
JoinSchemas(alias) ==
  {Schema(<<Col("a", "int", FALSE), Col("b", "int", FALSE)>>, alias)}

\* The operator is handed the predicate and the rows of its two inputs.
StartJoin ==
  /\ Ready
  /\ pred.kind = "equality"
  /\ join = NoJoin
  /\ \E L \in SeqsUpTo(LeftRows, 1, MaxRows) :
    \E R \in SeqsUpTo(RightRows, 1, MaxRows) :
      /\ join' = [state |-> "running", L |-> L, R |-> R, i |-> 1, j |-> 1,
                  out |-> <<>>]
      /\ op' = "join"
      /\ UNCHANGED <<left, right, pred, info, args, ret, bufs, pc, streams>>

\* One pair of rows: eval, and only if it returns true, prepareRow into a
\* buffer of the merged width and emit it.  An error of eval ends the join.
JoinStep ==
  /\ join.state = "running"
  /\ LET leftRow == join.L[join.i]
         rightRow == join.R[join.j]
         buf == NewBuffer(Len(info.sourceColumns))
         ev == eval(pred, buf, leftRow, rightRow)
         last == join.i = Len(join.L) /\ join.j = Len(join.R)
     IN join' =
          IF ev.err # NoErr THEN [join EXCEPT !.state = "error"]
          ELSE [join EXCEPT
                  !.out = IF ev.res
                            THEN Append(@, prepareRow(pred, buf, leftRow, rightRow))
                            ELSE @,
                  !.state = IF last THEN "done" ELSE "running",
                  !.i = IF join.j = Len(join.R) /\ ~last THEN @ + 1 ELSE @,
                  !.j = IF last THEN @
                        ELSE IF join.j = Len(join.R) THEN 1 ELSE @ + 1]
  /\ UNCHANGED <<left, right, pred, info, op, args, ret, bufs, pc, streams>>

JoinUsing == MakeUsingPredicate(RunNames)

InitJoin == InitWith(JoinSchemas("t"), JoinSchemas("u"))
NextJoin == JoinUsing \/ Return \/ StartJoin \/ JoinStep
SpecJoin == InitJoin /\ [][NextJoin]_vars

----------------------------------------------------------------------------
(* Construction: properties *)

Range(f) == {f[i] : i \in DOMAIN f}

StrictlyIncreasing(f) == \A i, j \in DOMAIN f : i < j => f[i] < f[j]

IsEquality == pred.kind = "equality"

NumPairs == Len(pred.leftUsingIndices)

\* The visible columns of cols whose normalized name is name.
Visible(cols, name) ==
  {j \in 1..Len(cols) : ~cols[j].hidden /\ Normalize(cols[j].Name) = name}

\* The merged positions that stand for column c of the left input: the slots
\* of the USING pairs that resolved it, or its place among the left rest.
LeftPositions(c) ==
  {i \in 1..NumPairs : pred.leftUsingIndices[i] = c}
    \cup {NumPairs + k : k \in {k \in DOMAIN pred.leftRestIndices :
                                  pred.leftRestIndices[k] = c}}

RightPositions(c) ==
  {i \in 1..NumPairs : pred.rightUsingIndices[i] = c}
    \cup {NumPairs + Len(pred.leftRestIndices) + k :
            k \in {k \in DOMAIN pred.rightRestIndices :
                     pred.rightRestIndices[k] = c}}

\* The order and width of the merged schema, and the rest indices.
MergedShape ==
  LET lc == left.sourceColumns
      rc == right.sourceColumns
      mc == info.sourceColumns
      lrest == pred.leftRestIndices
      rrest == pred.rightRestIndices
  IN /\ ~info.nil
     /\ Len(mc) = NumPairs + Len(lrest) + Len(rrest)
     /\ \A i \in 1..NumPairs : mc[i] = lc[pred.leftUsingIndices[i]]
     /\ \A k \in DOMAIN lrest : mc[NumPairs + k] = lc[lrest[k]]
     /\ \A k \in DOMAIN rrest : mc[NumPairs + Len(lrest) + k] = rc[rrest[k]]
     /\ StrictlyIncreasing(lrest) /\ StrictlyIncreasing(rrest)
     /\ Range(lrest) = (1..Len(lc)) \ Range(pred.leftUsingIndices)
     /\ Range(rrest) = (1..Len(rc)) \ Range(pred.rightUsingIndices)

\* No column of either input is resolved by two USING pairs.
PairsInjective ==
  /\ \A i, j \in 1..NumPairs :
       pred.leftUsingIndices[i] = pred.leftUsingIndices[j] => i = j
  /\ \A i, j \in 1..NumPairs :
       pred.rightUsingIndices[i] = pred.rightUsingIndices[j] => i = j

\* C4 as stated: after every successful makeEqualityPredicate call the merged
\* schema is the USING columns (left descriptors, pair order), then the left
\* rest, then the right rest; its width is the sum of the three counts; the
\* rest indices are strictly increasing and disjoint from the USING indices;
\* and every original column of either side corresponds to exactly one merged
\* position.
C4_Original ==
  IsEquality =>
    /\ MergedShape
    /\ \A c \in 1..Len(left.sourceColumns) : Cardinality(LeftPositions(c)) = 1
    /\ \A c \in 1..Len(right.sourceColumns) : Cardinality(RightPositions(c)) = 1

\* C4 amended: the shape holds for every successful call; every original column
\* corresponds to at least one merged position, and to exactly one when no
\* column is resolved by two USING pairs, which every call through
\* makeUsingPredicate guarantees.
C4_MergedSchema ==
  IsEquality =>
    /\ MergedShape
    /\ \A c \in 1..Len(left.sourceColumns) : Cardinality(LeftPositions(c)) >= 1
    /\ \A c \in 1..Len(right.sourceColumns) : Cardinality(RightPositions(c)) >= 1
    /\ op = "makeUsingPredicate" => PairsInjective
    /\ PairsInjective =>
         /\ \A c \in 1..Len(left.sourceColumns) : Cardinality(LeftPositions(c)) = 1
         /\ \A c \in 1..Len(right.sourceColumns) : Cardinality(RightPositions(c)) = 1

\* A USING(a) join of two inputs with a rest column each: width 3.
C4_Witness ==
  /\ IsEquality
  /\ op = "makeUsingPredicate"
  /\ NumPairs = 1
  /\ Len(pred.leftRestIndices) = 1
  /\ Len(pred.rightRestIndices) = 1
  /\ Len(info.sourceColumns) = 3

LengthMismatch ==
  /\ op = "makeEqualityPredicate"
  /\ Len(args.leftColNames) # Len(args.rightColNames)

\* C6 as stated: name lists of different lengths are rejected with an error
\* result, not with a fatal outcome, and nothing is returned.
C6_Original ==
  LengthMismatch =>
    ret.panic = NoErr /\ ret.err # NoErr /\ pred = NilPred /\ info = NilInfo

\* C6 amended: name lists of different lengths make makeEqualityPredicate
\* panic; the call returns no error value, no predicate and no merged schema.
C6_LengthMismatchPanics ==
  LengthMismatch =>
    ret.panic # NoErr /\ ret.err = NoErr /\ pred = NilPred /\ info = NilInfo

C6_Witness == LengthMismatch /\ ret.panic # NoErr

\* The USING list given to makeUsingPredicate, normalized.
UsingList == [i \in DOMAIN args.leftColNames |-> Normalize(args.leftColNames[i])]

RepeatedNames ==
  {UsingList[j] : j \in {j \in DOMAIN UsingList :
                           \E i \in 1..(j - 1) : UsingList[i] = UsingList[j]}}

\* The type of the column a name resolves to.
ResolvedType(cols, name) == cols[Max(Visible(cols, name))].Typ

\* Pair i cannot be built: a side has no visible column of that name, or the
\* two resolved types have no equality function.
PairFails(i) ==
  \/ Visible(left.sourceColumns, UsingList[i]) = {}
  \/ Visible(right.sourceColumns, UsingList[i]) = {}
  \/ ResolvedType(left.sourceColumns, UsingList[i])
       # ResolvedType(right.sourceColumns, UsingList[i])

FailingPairs == {i \in DOMAIN UsingList : PairFails(i)}

\* The error the first failing pair must produce.
PairError(i) ==
  LET name == UsingList[i] IN
  IF Visible(left.sourceColumns, name) = {}
    THEN <<"does not exist", name, "left">>
  ELSE IF Visible(right.sourceColumns, name) = {}
    THEN <<"does not exist", name, "right">>
  ELSE <<"cannot be matched", ResolvedType(left.sourceColumns, name), name,
         ResolvedType(right.sourceColumns, name), name>>

NothingReturned ==
  ret.err # NoErr /\ ret.panic = NoErr /\ pred = NilPred /\ info = NilInfo

\* C7: makeUsingPredicate is all-or-nothing.  A repeated normalized name gives
\* the "appears more than once" error whether or not the names resolve;
\* otherwise the first pair that cannot be built gives its error: the side and
\* name of the missing column, or the two types and columns that have no
\* equality function.  In every such case predicate and merged schema are nil;
\* in every other case both are returned without error.
C7_AllOrNothing ==
  op = "makeUsingPredicate" =>
    /\ RepeatedNames # {} =>
         /\ NothingReturned
         /\ Len(ret.err) = 2
         /\ ret.err[1] = "appears more than once"
         /\ ret.err[2] \in RepeatedNames
    /\ (RepeatedNames = {} /\ FailingPairs # {}) =>
         /\ NothingReturned
         /\ ret.err = PairError(CHOOSE i \in FailingPairs :
                                  \A j \in FailingPairs : i <= j)
    /\ (RepeatedNames = {} /\ FailingPairs = {}) =>
         /\ ret.err = NoErr /\ ret.panic = NoErr
         /\ IsEquality /\ ~info.nil

\* USING(x, x) for a name no column has: the repeat is reported, not the
\* missing column.
C7_Witness ==
  /\ op = "makeUsingPredicate"
  /\ RepeatedNames # {}
  /\ \E i \in DOMAIN UsingList : Visible(left.sourceColumns, UsingList[i]) = {}
  /\ NothingReturned
  /\ ret.err[1] = "appears more than once"

----------------------------------------------------------------------------
(* Row operations of equalityPredicate: properties *)

EqualityCall(name) == op = name /\ args.p.kind = "equality"

PairCount == Len(args.p.leftUsingIndices)

LeftVal(i) == args.leftRow[args.p.leftUsingIndices[i]]
RightVal(i) == args.rightRow[args.p.rightUsingIndices[i]]

NullAt(i) == LeftVal(i) = DNull \/ RightVal(i) = DNull

Compared(i) == CmpApply(args.p.usingCmp[i], LeftVal(i), RightVal(i))

\* Pair i is non-null on both sides and its comparison returns true.
PairEqual(i) == ~NullAt(i) /\ Compared(i).err = NoErr /\ Compared(i).res

UpTo(n) == [i \in 1..n |-> i]

\* C1: eval returns (true, nil) exactly when every pair is non-null on both
\* sides and compares equal without error.  Otherwise the first pair that is
\* not so decides: a null on either side gives (false, nil) and the comparison
\* functions of that pair and of the later ones are not called; a false
\* comparison gives (false, nil); a comparison error gives (false, err).
C1_EqualityEval ==
  EqualityCall("eval") =>
    LET bad == {i \in 1..PairCount : ~PairEqual(i)} IN
    /\ (ret.res /\ ret.err = NoErr) <=> bad = {}
    /\ bad = {} => ret.calls = UpTo(PairCount)
    /\ bad # {} =>
         LET i == CHOOSE i \in bad : \A j \in bad : i <= j IN
         /\ ~ret.res
         /\ NullAt(i) => ret.err = NoErr /\ ret.calls = UpTo(i - 1)
         /\ ~NullAt(i) => ret.err = Compared(i).err /\ ret.calls = UpTo(i)
    /\ ret.err # NoErr =>
         \E i \in 1..PairCount :
           /\ \A j \in 1..(i - 1) : PairEqual(j)
           /\ ~NullAt(i)
           /\ Compared(i).err = ret.err

\* Two pairs: the first has a null, the second a datum its comparison fails
\* on; eval returns (false, nil) and calls no comparison function.
C1_Witness ==
  /\ EqualityCall("eval")
  /\ PairCount = 2
  /\ LeftVal(1) = DNull /\ RightVal(1) = DNull
  /\ LeftVal(2) = DBad
  /\ ~ret.res /\ ret.err = NoErr /\ ret.calls = <<>>

\* C2: prepareRow writes, for any two rows, the coalesced USING values (the
\* left value unless it is null, then the right one), then the left rest, then
\* the right rest; it assigns the positions 1..(pairs + rests) once each, and
\* leaves the predicate as it was.
C2_EqualityPrepareRow ==
  EqualityCall("prepareRow") =>
    LET n == PairCount
        lrest == args.p.leftRestIndices
        rrest == args.p.rightRestIndices
    IN /\ \A k \in 1..n :
            /\ ret.result[k] = IF LeftVal(k) # DNull THEN LeftVal(k) ELSE RightVal(k)
            /\ ret.result[k] = DNull <=> (LeftVal(k) = DNull /\ RightVal(k) = DNull)
       /\ \A k \in DOMAIN lrest : ret.result[n + k] = args.leftRow[lrest[k]]
       /\ \A k \in DOMAIN rrest :
            ret.result[n + Len(lrest) + k] = args.rightRow[rrest[k]]
       /\ ret.writes = UpTo(n + Len(lrest) + Len(rrest))
       /\ Len(ret.result) = n + Len(lrest) + Len(rrest)
       /\ pred = args.p

\* A row pair eval rejects (left USING value null), with rest columns on both
\* sides: the slot takes the right value.
C2_Witness ==
  /\ EqualityCall("prepareRow")
  /\ PairCount = 1
  /\ Len(args.p.leftRestIndices) = 1 /\ Len(args.p.rightRestIndices) = 1
  /\ LeftVal(1) = DNull /\ RightVal(1) = 1
  /\ ret.result[1] = 1
  /\ args.leftRow[args.p.leftRestIndices[1]] # args.rightRow[args.p.rightRestIndices[1]]

\* The USING values encode is given, in pair order.
KeyVals ==
  LET cols == IF args.side = leftSide THEN args.p.leftUsingIndices
              ELSE args.p.rightUsingIndices
  IN [i \in DOMAIN cols |-> args.row[cols[i]]]

\* The encodings of vals[1..n], one after the other.
RECURSIVE Encoded(_, _)
Encoded(vals, n) ==
  IF n = 0 THEN <<>> ELSE Encoded(vals, n - 1) \o EncodeDatum(<<>>, vals[n]).b

Unencodable(v) == EncodeDatum(<<>>, v).err # NoErr

\* C5: encode for leftSide (rightSide) appends to the buffer the encodings of
\* the row's values at leftUsingIndices (rightUsingIndices), in pair order, and
\* nothing else; containsNull tells whether one of them is null; a value that
\* cannot be encoded gives (nil, false, err) and ends the loop at its column.
C5_EqualityEncode ==
  (EqualityCall("encode") /\ args.side \in {leftSide, rightSide}) =>
    LET failing == {i \in DOMAIN KeyVals : Unencodable(KeyVals[i])} IN
    /\ ret.panic = NoErr
    /\ failing = {} =>
         /\ ret.err = NoErr
         /\ ret.b = args.b \o Encoded(KeyVals, Len(KeyVals))
         /\ ret.containsNull <=> (\E i \in DOMAIN KeyVals : KeyVals[i] = DNull)
         /\ ret.calls = Len(KeyVals)
    /\ failing # {} =>
         /\ ret.err = EncodeDatum(<<>>, DBad).err
         /\ ret.b = <<>> /\ ~ret.containsNull
         /\ ret.calls = CHOOSE i \in failing : \A j \in failing : i <= j

\* USING of two pairs whose left positions are not in row order, a non-empty
\* buffer, a null among the key values: both are encoded, in pair order.
C5_Witness ==
  /\ EqualityCall("encode")
  /\ args.side = leftSide
  /\ args.p.leftUsingIndices = <<2, 1>>
  /\ args.p.rightUsingIndices # <<2, 1>>
  /\ args.b = <<7>>
  /\ args.row = <<DNull, 2>>
  /\ ret.b = <<7, 1, 2, 0>>
  /\ ret.containsNull

ValidSide == args.side \in {leftSide, rightSide}

\* C8 as stated: encode of crossPredicate and of onPredicate, and encode of
\* equalityPredicate with an unknown side, never return: they panic.
C8_Original ==
  (op = "encode" /\ (args.p.kind \in {"cross", "on"} \/ ~ValidSide)) =>
    ret.panic # NoErr

\* C8 amended: encode of onPredicate, and encode of equalityPredicate with an
\* unknown side, panic for every buffer and row; encode of crossPredicate
\* returns (nil, false, nil) for every buffer, row and side.
C8_EncodeMisuse ==
  op = "encode" =>
    /\ args.p.kind = "on" => ret.panic # NoErr
    /\ (args.p.kind = "equality" /\ ~ValidSide) => ret.panic # NoErr
    /\ (args.p.kind = "equality" /\ ValidSide) => ret.panic = NoErr
    /\ args.p.kind = "cross" =>
         /\ ret.panic = NoErr /\ ret.err = NoErr
         /\ ret.b = <<>> /\ ~ret.containsNull

C8_Witness ==
  /\ op = "encode"
  /\ args.p.kind = "cross"
  /\ ~ValidSide
  /\ args.b # <<>>
  /\ ret.panic = NoErr /\ ret.b = <<>>

----------------------------------------------------------------------------
(* Alias remapping: properties *)

\* The merged position the remapping gives column c of the left (right)
\* input: the slot of the last USING pair that resolved it, or its position
\* after the USING slots among the rest columns.
LeftSlot(c) ==
  IF c \in Range(pred.leftUsingIndices)
    THEN Max({i \in 1..NumPairs : pred.leftUsingIndices[i] = c})
    ELSE NumPairs + (CHOOSE k \in DOMAIN pred.leftRestIndices :
                       pred.leftRestIndices[k] = c)

RightSlot(c) ==
  IF c \in Range(pred.rightUsingIndices)
    THEN Max({i \in 1..NumPairs : pred.rightUsingIndices[i] = c})
    ELSE NumPairs + Len(pred.leftRestIndices)
           + (CHOOSE k \in DOMAIN pred.rightRestIndices :
                pred.rightRestIndices[k] = c)

\* The value a merged row must hold for column c of the left (right) input.
LeftColumnValue(c, leftRow, rightRow) ==
  IF c \in Range(pred.leftUsingIndices) /\ leftRow[c] = DNull
    THEN rightRow[pred.rightUsingIndices[LeftSlot(c)]]
    ELSE leftRow[c]

RightColumnValue(c, leftRow, rightRow) ==
  IF c \in Range(pred.rightUsingIndices)
       /\ leftRow[pred.leftUsingIndices[RightSlot(c)]] # DNull
    THEN leftRow[pred.leftUsingIndices[RightSlot(c)]]
    ELSE rightRow[c]

\* The merged alias map, apart from which slot a USING column gets.
AliasesRemapped ==
  LET la == left.sourceAliases
      ra == right.sourceAliases
      ma == info.sourceAliases
      width == Len(info.sourceColumns)
  IN /\ DOMAIN ma = (DOMAIN la) \cup (DOMAIN ra)
     /\ \A a \in DOMAIN ra :
          /\ Len(ma[a]) = Len(ra[a])
          /\ \A k \in DOMAIN ra[a] :
               /\ ma[a][k] = RightSlot(ra[a][k])
               /\ ma[a][k] \in 1..width
               /\ \A leftRow \in LeftRows : \A rightRow \in RightRows :
                    prepareRow(pred, NewBuffer(width), leftRow, rightRow)[ma[a][k]]
                      = RightColumnValue(ra[a][k], leftRow, rightRow)
     /\ \A a \in (DOMAIN la) \ (DOMAIN ra) :
          /\ Len(ma[a]) = Len(la[a])
          /\ \A k \in DOMAIN la[a] :
               /\ ma[a][k] = LeftSlot(la[a][k])
               /\ ma[a][k] \in 1..width
               /\ \A leftRow \in LeftRows : \A rightRow \in RightRows :
                    prepareRow(pred, NewBuffer(width), leftRow, rightRow)[ma[a][k]]
                      = LeftColumnValue(la[a][k], leftRow, rightRow)

\* C9 as stated: the merged alias map has the alias names of both inputs; each
\* list keeps its length and order with every column index replaced by its
\* merged index, in range, where prepareRow puts the column's (coalesced)
\* value; a column resolved by USING pair i maps to slot i; on a name clash the
\* right side's list stays.
C9_Original ==
  IsEquality =>
    /\ AliasesRemapped
    /\ \A a \in DOMAIN right.sourceAliases : \A k \in DOMAIN right.sourceAliases[a] :
         \A i \in 1..NumPairs :
           pred.rightUsingIndices[i] = right.sourceAliases[a][k]
             => info.sourceAliases[a][k] = i
    /\ \A a \in (DOMAIN left.sourceAliases) \ (DOMAIN right.sourceAliases) :
         \A k \in DOMAIN left.sourceAliases[a] : \A i \in 1..NumPairs :
           pred.leftUsingIndices[i] = left.sourceAliases[a][k]
             => info.sourceAliases[a][k] = i

\* C9 amended: as stated, except that a column resolved by several USING
\* pairs maps to the slot of the last of them; a column resolved by one pair i
\* maps to slot i, which is every USING column of a call through
\* makeUsingPredicate.
C9_AliasRemap ==
  IsEquality =>
    /\ AliasesRemapped
    /\ op = "makeUsingPredicate" => PairsInjective
    /\ PairsInjective =>
         /\ \A i \in 1..NumPairs : LeftSlot(pred.leftUsingIndices[i]) = i
         /\ \A i \in 1..NumPairs : RightSlot(pred.rightUsingIndices[i]) = i

\* Both inputs call their alias t: the merged entry is the right side's list,
\* remapped, and differs from what the left side's would be.
C9_Witness ==
  /\ IsEquality
  /\ NumPairs = 1
  /\ DOMAIN left.sourceAliases = {"t"} /\ DOMAIN right.sourceAliases = {"t"}
  /\ right.sourceAliases["t"] = <<2, 1>>
  /\ pred.rightUsingIndices = <<2>>
  /\ info.sourceAliases["t"] = <<1, 2 + Len(pred.leftRestIndices)>>
  /\ left.sourceAliases["t"] = <<2, 1>>
  /\ info.sourceAliases["t"] # RemapAliases(left.sourceAliases,
         [c \in 1..Len(left.sourceColumns) |-> LeftSlot(c)])["t"]

----------------------------------------------------------------------------
(* The join operator: properties *)

\* Every USING column of the pair is non-null on both sides and equal.
Matching(leftRow, rightRow) ==
  \A k \in 1..NumPairs :
    /\ leftRow[pred.leftUsingIndices[k]] # DNull
    /\ rightRow[pred.rightUsingIndices[k]] # DNull
    /\ leftRow[pred.leftUsingIndices[k]] = rightRow[pred.rightUsingIndices[k]]

\* The output row of a matching pair: the left row's USING values, the left
\* rest, the right rest.
MatchRow(leftRow, rightRow) ==
  [k \in 1..NumPairs |-> leftRow[pred.leftUsingIndices[k]]]
    \o [k \in DOMAIN pred.leftRestIndices |-> leftRow[pred.leftRestIndices[k]]]
    \o [k \in DOMAIN pred.rightRestIndices |-> rightRow[pred.rightRestIndices[k]]]

\* The pair the loop visits t-th.
PairLeft(t) == join.L[((t - 1) \div Len(join.R)) + 1]
PairRight(t) == join.R[((t - 1) % Len(join.R)) + 1]

\* The output rows of the matching pairs among the first t pairs visited.
RECURSIVE MatchRows(_)
MatchRows(t) ==
  IF t = 0 THEN <<>>
  ELSE IF Matching(PairLeft(t), PairRight(t))
    THEN Append(MatchRows(t - 1), MatchRow(PairLeft(t), PairRight(t)))
    ELSE MatchRows(t - 1)

\* The number of pairs the loop has visited.
Visited ==
  IF join.state = "done" THEN Len(join.L) * Len(join.R)
  ELSE (join.i - 1) * Len(join.R) + (join.j - 1)

\* C3: the rows a join over all pairs emits are exactly the prepareRow outputs
\* of the pairs whose USING columns are all non-null on both sides and equal;
\* each USING slot of an emitted row holds the left row's value, never null;
\* a pair with a null USING value emits nothing.  (A join that a comparison
\* error ended has emitted the rows of the matching pairs before it.)
C3_JoinOutput ==
  join.state \in {"running", "done", "error"} =>
    /\ join.out = MatchRows(Visited)
    /\ \A n \in DOMAIN join.out : \A k \in 1..NumPairs : join.out[n][k] # DNull
    /\ join.state = "done" =>
         Len(join.out) = Cardinality({t \in 1..(Len(join.L) * Len(join.R)) :
                                        Matching(PairLeft(t), PairRight(t))})

\* USING(a) over L = (1,1), (NULL,2) and R = (1,2), (NULL,1): the one row
\* (1,1,2); the two rows with a null a match nothing, not even each other.
C3_Witness ==
  /\ join.state = "done"
  /\ pred.leftUsingIndices = <<1>> /\ pred.rightUsingIndices = <<1>>
  /\ join.L = <<<<1, 1>>, <<DNull, 2>>>>
  /\ join.R = <<<<1, 2>>, <<DNull, 1>>>>
  /\ join.out = <<<<1, 1, 2>>>>

----------------------------------------------------------------------------
(* onPredicate.eval on a shared instance: properties *)

OwnRow(s) == streams[s].leftRow \o streams[s].rightRow

\* What the filter saw in the call of stream s.
Seen(s) == <<streams[s].v1, streams[s].v2>>

\* What the filter must see and return for the rows of stream s.
OwnSeen(s) == <<OwnRow(s)[pred.filter[1]], OwnRow(s)[pred.filter[2]]>>
OwnResult(s) == RunFilter(OwnSeen(s)[1], OwnSeen(s)[2])

\* C10: an eval of the On predicate that no other eval overlaps makes curRow
\* the caller's buffer, fills it with leftRow followed by rightRow, and
\* evaluates the filter on exactly that row.  eval of Cross and Equality, and
\* prepareRow of every variant, leave the predicate as it was.  (That an
\* overlapping eval can read the other call's row is the witness.)
C10_OnEval ==
  /\ \A s \in Streams :
       (pc[s] \in {"read1", "read2", "done"} /\ ~streams[s].overlapped) =>
         /\ pc[s] # "done" =>
              /\ pred.curRow = streams[s].result
              /\ bufs[streams[s].result] = OwnRow(s)
         /\ pc[s] = "done" =>
              /\ Seen(s) = OwnSeen(s)
              /\ streams[s].res = OwnResult(s).res
              /\ streams[s].err = OwnResult(s).err
  /\ \A s \in Streams :
       (pc[s] = "concat" /\ ~streams[s].overlapped) =>
         pred.curRow = streams[s].result
  /\ op \in {"eval", "prepareRow"} => pred = args.p

\* Two overlapping calls with different buffers: stream 1's filter read the
\* row stream 2 installed, and returned stream 2's answer.
C10_Witness ==
  /\ pc[1] = "done" /\ pc[2] = "done"
  /\ streams[1].result # streams[2].result
  /\ streams[1].overlapped
  /\ Seen(1) = OwnSeen(2)
  /\ Seen(1) # OwnSeen(1)
  /\ OwnResult(1).res /\ ~streams[1].res
  /\ bufs[streams[1].result] = OwnRow(1)

====
